---- MODULE Spec2Model ----
(***************************************************************************)
(* Model of compose_utility.py: the compose builders that keep a current   *)
(* table (BasicComposeBuilder) and, wrapped in TrackHistory, a historical  *)
(* table of versions with effective_start / effective_end.                 *)
(*                                                                         *)
(* A DataFrame is a sequence of rows (records); its index is the field the *)
(* frame is keyed by: key (the natural key, address_key) for the current   *)
(* table and for a CDC batch, address_sk for the historical table.         *)
(* Time is counted in half days, so that two timestamps can be less than   *)
(* one day apart: timedelta(days=1) is OneDay == 2.                        *)
(***************************************************************************)
EXTENDS Integers, Sequences, FiniteSets, TLC

\* ---- bounds of the model ----
NumKeys == 2
NumValues == 2
MaxTime == 4
MaxInitTime == 0
MaxBatchLen == 2
MaxIngests == 2

\* ---- constants of the program ----
\* timedelta(days=1), in half days
OneDay == 2
\* np.nan / NaT: the null value of a date column
NaN == -99

Keys == 1..NumKeys
Values == 1..NumValues
Times == 0..MaxTime
InitTimes == 0..MaxInitTime

VARIABLES
    kind,              \* which compose_builder the driver built
    init_load,         \* builder.init_load: the load the builder was given
    module_init_load,  \* the module-level name init_load (read at line 102)
    builder_current,   \* builder.current_table (BasicComposeBuilder)
    current_table,     \* TrackHistory's own self.current_table
    historical_table,  \* TrackHistory.historical_table
    next_uuid,         \* the identifiers uuid.uuid1() has handed out so far
    cdc,               \* the argument of the last ingest_cdc call
    raised,            \* the exception the last ingest_cdc call ended with
    ingested,          \* every batch passed to ingest_cdc so far, in order
    outcomes           \* what each of these calls ended with, in order

vars == <<kind, init_load, module_init_load, builder_current, current_table,
          historical_table, next_uuid, cdc, raised, ingested, outcomes>>

\* ---------------------------------------------------------------------
\* DataFrame helpers
\* ---------------------------------------------------------------------

\* df.index of a frame keyed by the natural key
Index(df) == {df[i].key : i \in DOMAIN df}

\* the positions of label k in a frame keyed by the natural key
Locs(df, k) == {i \in DOMAIN df : df[i].key = k}

\* whether the index of the frame holds every label once
IsUnique(df) == \A i, j \in DOMAIN df : df[i].key = df[j].key => i = j

\* the last row of df labelled k (an assignment through repeated positions
\* keeps the last value written)
LastRow(df, k) == df[CHOOSE i \in Locs(df, k) : \A j \in Locs(df, k) : j <= i]

\* "cannot reindex from a duplicate axis": aligning a value whose index
\* repeats a label with a target that holds that label more than once
ReindexFails(target, value) ==
    \E k \in Index(value) :
        Cardinality(Locs(value, k)) > 1 /\ Cardinality(Locs(target, k)) > 1

\* ---------------------------------------------------------------------
\* ComposeBuilder
\* ---------------------------------------------------------------------

\* uuid.uuid1() called n times: n identifiers never handed out before
generate_surrogate_keys(next, n) == [i \in 1..n |-> next + i - 1]

\* split_cdc_records with the isin test lost: every row counts as new
split_cdc_records_all_new(table, rows) ==
    [existing_records |-> <<>>, new_records |-> rows]

\* split_cdc_records with the negated isin test lost: new_records is the batch
split_cdc_records_new_unfiltered(table, rows) ==
    [existing_records |-> SelectSeq(rows, LAMBDA r : r.key \in Index(table)),
     new_records      |-> rows]

\* cdc[cdc.index.isin(table.index)], cdc[~cdc.index.isin(table.index)]
split_cdc_records(table, rows) ==
    [existing_records |-> SelectSeq(rows, LAMBDA r : r.key \in Index(table)),
     new_records      |-> SelectSeq(rows, LAMBDA r : r.key \notin Index(table))]

\* ---------------------------------------------------------------------
\* BasicComposeBuilder
\* ---------------------------------------------------------------------

\* __ingest_existing_records__ with the assignment lost
basic_ingest_existing_records_skipped(table, rows) == table

\* self.current_table.ix[cdc.index] = cdc
basic_ingest_existing_records(table, rows) ==
    [i \in DOMAIN table |->
        IF table[i].key \in Index(rows) THEN LastRow(rows, table[i].key)
        ELSE table[i]]

\* self.current_table = self.current_table.append(cdc)
basic_ingest_new_records(table, rows) == table \o rows

\* ingest_cdc appending the whole batch after the update of the existing rows
basic_ingest_cdc_appends_batch(table, rows) ==
    LET split == split_cdc_records(table, rows)
    IN  IF ReindexFails(table, split.existing_records)
        THEN [table |-> table, raised |-> "ValueError"]
        ELSE [table |-> basic_ingest_new_records(
                            basic_ingest_existing_records(table, split.existing_records),
                            rows),
              raised |-> "none"]

\* BasicComposeBuilder.ingest_cdc: the table it leaves and what it raised
basic_ingest_cdc(table, rows) ==
    LET split == split_cdc_records(table, rows)
    IN  IF ReindexFails(table, split.existing_records)
        THEN [table |-> table, raised |-> "ValueError"]
        ELSE [table |-> basic_ingest_new_records(
                            basic_ingest_existing_records(table, split.existing_records),
                            split.new_records),
              raised |-> "none"]

\* ---------------------------------------------------------------------
\* TrackHistory
\* ---------------------------------------------------------------------

\* TrackHistory.__add_current_historical_records__
add_current_historical_records(hist, rows, next) ==
    LET sks == generate_surrogate_keys(next, Len(rows))
    IN  hist \o [i \in 1..Len(rows) |->
                    [address_sk      |-> sks[i],
                     key             |-> rows[i].key,
                     value           |-> rows[i].value,
                     last_updated    |-> rows[i].last_updated,
                     effective_start |-> rows[i].last_updated,
                     effective_end   |-> NaN]]

\* historical_table[historical_table['effective_end'].isnull()], keyed by
\* the natural key (swap_to_natural_key)
historical_current_view(hist) == SelectSeq(hist, LAMBDA r : r.effective_end = NaN)

\* what the .loc assignment of line 129 raises, if anything
close_raises(hist, batch, rows) ==
    IF ~batch.has_last_updated THEN "KeyError"
    ELSE IF ~(Index(rows) \subseteq Index(historical_current_view(hist))) THEN "KeyError"
    ELSE IF ReindexFails(historical_current_view(hist), rows) THEN "ValueError"
    ELSE "none"

\* line 129 without "- timedelta(days=1)": a version ends when the next starts
close_open_versions_same_day(hist, rows) ==
    [i \in DOMAIN hist |->
        IF hist[i].effective_end = NaN /\ hist[i].key \in Index(rows)
        THEN [hist[i] EXCEPT !.effective_end = LastRow(rows, hist[i].key).last_updated]
        ELSE hist[i]]

\* line 123 without the isnull() filter: every version of the key is closed again
close_all_versions(hist, rows) ==
    [i \in DOMAIN hist |->
        IF hist[i].key \in Index(rows)
        THEN [hist[i] EXCEPT !.effective_end =
                                LastRow(rows, hist[i].key).last_updated - OneDay]
        ELSE hist[i]]

\* lines 123-132: the open rows labelled by a key of the batch get
\* effective_end = last_updated - 1 day and are written back by surrogate key
close_open_versions(hist, rows) ==
    [i \in DOMAIN hist |->
        IF hist[i].effective_end = NaN /\ hist[i].key \in Index(rows)
        THEN [hist[i] EXCEPT !.effective_end =
                                LastRow(rows, hist[i].key).last_updated - OneDay]
        ELSE hist[i]]

\* TrackHistory.initialize_compose_layer, lines 102-108
initial_historical_table(load) == add_current_historical_records(<<>>, load, 1)

\* ---------------------------------------------------------------------
\* Inputs
\* ---------------------------------------------------------------------

Row(k, v, t) == [key |-> k, value |-> v, last_updated |-> t]

\* initial loads: one row per natural key
InitRows == {Row(k, v, t) : k \in Keys, v \in Values, t \in InitTimes}

InitLoads ==
    {l \in UNION {[1..n -> InitRows] : n \in 0..NumKeys} :
        \A i, j \in DOMAIN l : i < j => l[i].key < l[j].key}

\* CDC batches: every row of a batch carries the time the batch was
\* extracted (t), or the batch has no last_updated column at all (NaN)
CdcRows(t) == {Row(k, v, t) : k \in Keys, v \in Values}

BatchRows(t) == UNION {[1..n -> CdcRows(t)] : n \in 0..MaxBatchLen}

Batches ==
    {[has_last_updated |-> TRUE, rows |-> rs] :
        rs \in UNION {BatchRows(t) : t \in Times}} \cup
    {[has_last_updated |-> FALSE, rows |-> rs] : rs \in BatchRows(NaN)}

EmptyBatch == [has_last_updated |-> TRUE, rows |-> <<>>]

\* ---------------------------------------------------------------------
\* The state machine
\* ---------------------------------------------------------------------

\* __main__: BasicComposeBuilder(init_load, ...) alone (line 165) or wrapped
\* in TrackHistory (line 155).
\* The wrapper's current_table is the frame the builder held when it was
\* wrapped (line 77). TrackHistory.__init__ then re-initializes the builder
\* (lines 97, 100, 83), which binds the builder to a new copy of the load
\* (line 56): from here on the two are different frames, and no ingest_cdc
\* writes to the wrapper's.
\* historical_table is seeded from the module-level init_load, not from the
\* builder's (lines 102-104): ambient is what that name holds.
Constructed(k, load, ambient) ==
    /\ kind = k
    /\ init_load = load
    /\ module_init_load = ambient
    /\ builder_current = load
    /\ current_table = IF k = "TrackHistory" THEN load ELSE <<>>
    /\ historical_table =
          IF k = "TrackHistory" THEN initial_historical_table(ambient) ELSE <<>>
    /\ next_uuid = IF k = "TrackHistory" THEN Len(ambient) + 1 ELSE 1
    /\ cdc = EmptyBatch
    /\ raised = "none"
    /\ ingested = <<>>
    /\ outcomes = <<>>

\* __main__: the module-level init_load is the load passed to the builder
\* (lines 154-155, 164-165)
Init ==
    \E k \in {"BasicComposeBuilder", "TrackHistory"} : \E load \in InitLoads :
        Constructed(k, load, load)

\* TrackHistory(BasicComposeBuilder(load, ...)) built by a caller whose load
\* is not the one the module-level name init_load holds
InitAnyModuleLoad ==
    \E load \in InitLoads : \E ambient \in InitLoads :
        Constructed("TrackHistory", load, ambient)

\* the historical step with one list of surrogate keys used for the existing
\* and for the new records of a call
track_history_step_keys_reused(hist, own_table, batch, next) ==
    LET split == split_cdc_records(own_table, batch.rows)
        err   == close_raises(hist, batch, split.existing_records)
        n_ex  == Len(split.existing_records)
        n_new == Len(split.new_records)
    IN  IF err # "none"
        THEN [table |-> hist, next |-> next, raised |-> err]
        ELSE [table |->
                add_current_historical_records(
                    add_current_historical_records(
                        close_open_versions(hist, split.existing_records),
                        split.existing_records, next),
                    split.new_records, next),
              next |-> next + n_ex + n_new,
              raised |-> "none"]

\* the historical step with the call of line 133 lost: an existing record
\* closes the open version and gets no new one
track_history_step_no_new_version(hist, own_table, batch, next) ==
    LET split == split_cdc_records(own_table, batch.rows)
        err   == close_raises(hist, batch, split.existing_records)
        n_ex  == Len(split.existing_records)
        n_new == Len(split.new_records)
    IN  IF err # "none"
        THEN [table |-> hist, next |-> next, raised |-> err]
        ELSE [table |->
                add_current_historical_records(
                    close_open_versions(hist, split.existing_records),
                    split.new_records, next + n_ex),
              next |-> next + n_ex + n_new,
              raised |-> "none"]

\* the historical step of TrackHistory.ingest_cdc, lines 113-115
track_history_step(hist, own_table, batch, next) ==
    LET split == split_cdc_records(own_table, batch.rows)
        err   == close_raises(hist, batch, split.existing_records)
        n_ex  == Len(split.existing_records)
        n_new == Len(split.new_records)
    IN  IF err # "none"
        THEN [table |-> hist, next |-> next, raised |-> err]
        ELSE [table |->
                add_current_historical_records(
                    add_current_historical_records(
                        close_open_versions(hist, split.existing_records),
                        split.existing_records, next),
                    split.new_records, next + n_ex),
              next |-> next + n_ex + n_new,
              raised |-> "none"]

\* compose_builder.ingest_cdc(cdc) on a BasicComposeBuilder
BasicIngestCdc ==
    /\ kind = "BasicComposeBuilder"
    /\ Len(ingested) < MaxIngests
    /\ \E batch \in Batches :
        /\ LET res == basic_ingest_cdc(builder_current, batch.rows)
           IN  /\ builder_current' = res.table
               /\ raised' = res.raised
        /\ cdc' = batch
        /\ ingested' = Append(ingested, batch)
        /\ outcomes' = Append(outcomes, raised')
    /\ UNCHANGED <<kind, init_load, module_init_load, current_table,
                   historical_table, next_uuid>>

\* TrackHistory.ingest_cdc restoring the current table when the historical
\* step raises
TrackHistoryIngestCdc_rolls_back ==
    /\ kind = "TrackHistory"
    /\ Len(ingested) < MaxIngests
    /\ \E batch \in Batches :
        /\ LET res == basic_ingest_cdc(builder_current, batch.rows)
               hres == track_history_step(historical_table, current_table,
                                          batch, next_uuid)
           IN  /\ builder_current' = IF res.raised = "none" /\ hres.raised # "none"
                                    THEN builder_current ELSE res.table
               /\ IF res.raised # "none"
                  THEN /\ raised' = res.raised
                       /\ UNCHANGED <<historical_table, next_uuid>>
                  ELSE /\ raised' = hres.raised
                       /\ historical_table' = hres.table
                       /\ next_uuid' = hres.next
        /\ cdc' = batch
        /\ ingested' = Append(ingested, batch)
        /\ outcomes' = Append(outcomes, raised')
    /\ UNCHANGED <<kind, init_load, module_init_load, current_table>>

\* TrackHistory.ingest_cdc binding the wrapper's current_table to the
\* builder's after the call
TrackHistoryIngestCdc_rebinds ==
    /\ kind = "TrackHistory"
    /\ Len(ingested) < MaxIngests
    /\ \E batch \in Batches :
        /\ LET res == basic_ingest_cdc(builder_current, batch.rows)
               hres == track_history_step(historical_table, current_table,
                                          batch, next_uuid)
           IN  /\ builder_current' = res.table
               /\ IF res.raised # "none"
                  THEN /\ raised' = res.raised
                       /\ UNCHANGED <<historical_table, next_uuid>>
                  ELSE /\ raised' = hres.raised
                       /\ historical_table' = hres.table
                       /\ next_uuid' = hres.next
        /\ cdc' = batch
        /\ ingested' = Append(ingested, batch)
        /\ outcomes' = Append(outcomes, raised')
    /\ current_table' = builder_current'
    /\ UNCHANGED <<kind, init_load, module_init_load>>

\* compose_builder.ingest_cdc(cdc) on a TrackHistory: the wrapped builder's
\* ingest_cdc (line 111), then the historical step unless that raised
TrackHistoryIngestCdc ==
    /\ kind = "TrackHistory"
    /\ Len(ingested) < MaxIngests
    /\ \E batch \in Batches :
        /\ LET res == basic_ingest_cdc(builder_current, batch.rows)
               hres == track_history_step(historical_table, current_table,
                                          batch, next_uuid)
           IN  /\ builder_current' = res.table
               /\ IF res.raised # "none"
                  THEN /\ raised' = res.raised
                       /\ UNCHANGED <<historical_table, next_uuid>>
                  ELSE /\ raised' = hres.raised
                       /\ historical_table' = hres.table
                       /\ next_uuid' = hres.next
        /\ cdc' = batch
        /\ ingested' = Append(ingested, batch)
        /\ outcomes' = Append(outcomes, raised')
    /\ UNCHANGED <<kind, init_load, module_init_load, current_table>>

\* persist_updates: the current table it writes is the builder's, also when
\* called on a TrackHistory (lines 64, 89, 118)
persisted_current_table == builder_current

Next ==
    \/ BasicIngestCdc
    \/ TrackHistoryIngestCdc

Spec == Init /\ [][Next]_vars

\* the same builders when the module-level init_load is any load
NextTrackHistory == TrackHistoryIngestCdc

SpecAnyModuleLoad == InitAnyModuleLoad /\ [][NextTrackHistory]_vars

\* ---------------------------------------------------------------------
\* Vocabulary of the properties
\* ---------------------------------------------------------------------

Range(df) == {df[i] : i \in DOMAIN df}

\* every batch passed to ingest_cdc so far holds at most one row per key
UniqueBatches == \A i \in DOMAIN ingested : IsUnique(ingested[i].rows)

\* every batch passed to ingest_cdc so far carries the last_updated column
WithTimestamps == \A i \in DOMAIN ingested : ingested[i].has_last_updated

\* the timestamps key k has been given: <<0, t>> by the initial load,
\* <<i, t>> by the i-th batch
Events(k) ==
    {<<0, r.last_updated>> : r \in {x \in Range(init_load) : x.key = k}} \cup
    UNION {{<<i, r.last_updated>> : r \in {x \in Range(ingested[i].rows) : x.key = k}} :
           i \in DOMAIN ingested}

StrictlyIncreasing ==
    \A k \in Keys : \A e, f \in Events(k) : e[1] < f[1] => e[2] < f[2]

NeverDecreasing ==
    \A k \in Keys : \A e, f \in Events(k) : e[1] < f[1] => e[2] <= f[2]

AtLeastOneDayApart ==
    \A k \in Keys : \A e, f \in Events(k) : e[1] < f[1] => e[2] + OneDay <= f[2]

\* the historical rows of natural key k, and the open ones among them
Versions(k) == {r \in Range(historical_table) : r.key = k}
OpenVersions(k) == {r \in Versions(k) : r.effective_end = NaN}

\* b is the version that follows a when the versions of a key are sorted
\* by effective_start
FollowsInOrder(a, b) ==
    /\ a.key = b.key
    /\ a.effective_start < b.effective_start
    /\ ~\E c \in Versions(a.key) :
            /\ a.effective_start < c.effective_start
            /\ c.effective_start < b.effective_start

WellFormed(r) == r.effective_end = NaN \/ r.effective_start <= r.effective_end

\* the validity intervals [effective_start, effective_end] of a and b share
\* a point; an open row is valid from effective_start on
Overlap(a, b) ==
    /\ (b.effective_end = NaN \/ a.effective_start <= b.effective_end)
    /\ (a.effective_end = NaN \/ b.effective_start <= a.effective_end)

\* ---------------------------------------------------------------------
\* C1: for every natural key at most one historical row is open (null
\* effective_end), after initialization and any sequence of ingest_cdc
\* calls with unique keys per batch and strictly increasing timestamps.
\* ---------------------------------------------------------------------
C1_AtMostOneOpenVersion ==
    (kind = "TrackHistory" /\ UniqueBatches /\ WithTimestamps /\ StrictlyIncreasing)
        => \A k \in Keys : Cardinality(OpenVersions(k)) <= 1

\* ---------------------------------------------------------------------
\* C2: historical interval contiguity: for every natural key with at least
\* two versions, each version ends one day before the next one starts, and
\* exactly one version is open.
\* ---------------------------------------------------------------------
C2_IntervalContiguity ==
    (kind = "TrackHistory" /\ UniqueBatches /\ WithTimestamps /\ StrictlyIncreasing)
        => \A k \in Keys :
             Cardinality(Versions(k)) >= 2 =>
                /\ \A a, b \in Versions(k) :
                      FollowsInOrder(a, b) =>
                          a.effective_end = b.effective_start - OneDay
                /\ Cardinality(OpenVersions(k)) = 1

\* ---------------------------------------------------------------------
\* C4: a CDC row whose timestamp is equal to or earlier than the
\* effective_start of the open version of its key makes ingest_cdc raise
\* OrderingViolationError, and no historical row ends before it starts.
\* ---------------------------------------------------------------------
OrderingViolated(hist, rows) ==
    \E r \in Range(rows) : \E h \in Range(hist) :
        /\ h.key = r.key
        /\ h.effective_end = NaN
        /\ r.last_updated <= h.effective_start

C4_OrderingViolationRaised ==
    [][(/\ kind = "TrackHistory"
        /\ cdc'.has_last_updated
        /\ IsUnique(cdc'.rows)
        /\ OrderingViolated(historical_table, cdc'.rows))
          => /\ raised' = "OrderingViolationError"
             /\ \A r \in Range(historical_table') : WellFormed(r)]_vars

RowsOf(df, k) == SelectSeq(df, LAMBDA r : r.key = k)

C3_UpsertCorrectness ==
    [][IsUnique(cdc'.rows) =>
        /\ \A k \in Index(cdc'.rows) :
              /\ Len(RowsOf(persisted_current_table', k)) >= 1
              /\ \A r \in Range(RowsOf(persisted_current_table', k)) :
                    r = LastRow(cdc'.rows, k)
        /\ \A k \in Keys \ Index(cdc'.rows) :
              RowsOf(persisted_current_table', k) = RowsOf(persisted_current_table, k)]_vars

\* a batch has overwritten the row of one key and left another key alone
C3_Witness ==
    /\ Len(ingested) >= 1
    /\ IsUnique(cdc.rows)
    /\ \E r \in Range(cdc.rows) :
         /\ r.key \in Index(init_load)
         /\ r \notin Range(init_load)
         /\ r \in Range(persisted_current_table)
    /\ \E k \in Index(persisted_current_table) : k \notin Index(cdc.rows)

\* ---------------------------------------------------------------------
\* C6: an ingest_cdc call that fails leaves the current table and the
\* historical table exactly as they were before the call.
\* ---------------------------------------------------------------------
C6_FailedIngestChangesNothing ==
    [][raised' # "none" =>
        /\ builder_current' = builder_current
        /\ historical_table' = historical_table]_vars

\* ---------------------------------------------------------------------
\* C7: a batch with more than one row for one natural key is rejected with
\* KeyCollisionError and none of its rows is applied.
\* ---------------------------------------------------------------------
C7_KeyCollisionRejected ==
    [][(cdc'.has_last_updated /\ ~IsUnique(cdc'.rows)) =>
        /\ raised' = "KeyCollisionError"
        /\ builder_current' = builder_current
        /\ historical_table' = historical_table]_vars

\* ---------------------------------------------------------------------
\* C8: with unique keys in the initial load and in every batch, the current
\* table holds exactly one row per natural key seen so far, and it is the
\* row most recently passed to ingest_cdc for that key (the initial load's
\* row if no batch held the key).
\* ---------------------------------------------------------------------
BatchesWith(k) == {i \in DOMAIN ingested : k \in Index(ingested[i].rows)}

MostRecentRecord(k) ==
    IF BatchesWith(k) = {}
    THEN LastRow(init_load, k)
    ELSE LET last == CHOOSE i \in BatchesWith(k) : \A j \in BatchesWith(k) : j <= i
         IN  LastRow(ingested[last].rows, k)

KeysSeen == Index(init_load) \cup UNION {Index(ingested[i].rows) : i \in DOMAIN ingested}

C8_OneCurrentRowPerKey ==
    UniqueBatches =>
        \A k \in Keys :
            IF k \in KeysSeen
            THEN RowsOf(builder_current, k) = <<MostRecentRecord(k)>>
            ELSE RowsOf(builder_current, k) = <<>>

\* a key of the initial load was given a different row by each of two batches
C8_Witness ==
    /\ UniqueBatches
    /\ Len(ingested) = 2
    /\ \E k \in Index(init_load) :
         /\ k \in Index(ingested[1].rows) /\ k \in Index(ingested[2].rows)
         /\ LastRow(ingested[1].rows, k) # LastRow(init_load, k)
         /\ LastRow(ingested[2].rows, k) # LastRow(ingested[1].rows, k)
         /\ RowsOf(builder_current, k) = <<LastRow(ingested[2].rows, k)>>

\* ---------------------------------------------------------------------
\* C9: no two rows of historical_table share a surrogate key.
\* ---------------------------------------------------------------------
C9_SurrogateKeysDistinct ==
    \A i, j \in DOMAIN historical_table :
        historical_table[i].address_sk = historical_table[j].address_sk => i = j

\* keys minted at initialization and, by one later call, for an existing
\* and for a new record
C9_Witness ==
    /\ kind = "TrackHistory"
    /\ Len(init_load) >= 1
    /\ raised = "none"
    /\ Len(split_cdc_records(current_table, cdc.rows).existing_records) >= 1
    /\ Len(split_cdc_records(current_table, cdc.rows).new_records) >= 1
    /\ Len(historical_table) >= Len(init_load) + 2

\* ---------------------------------------------------------------------
\* C10: an ingest_cdc call keeps every historical row under its surrogate
\* key with the same attributes and effective_start; its effective_end is
\* unchanged, or goes from null to a date for an open row of a key of the
\* batch. A closed row never changes and no row is removed.
\* ---------------------------------------------------------------------
C10_HistoryRetained ==
    [][\A r \in Range(historical_table) :
          \E q \in Range(historical_table') :
             /\ q.address_sk = r.address_sk
             /\ q.key = r.key
             /\ q.value = r.value
             /\ q.last_updated = r.last_updated
             /\ q.effective_start = r.effective_start
             /\ \/ q.effective_end = r.effective_end
                \/ /\ r.effective_end = NaN
                   /\ q.effective_end # NaN
                   /\ r.key \in Index(cdc'.rows)]_vars

\* a row closed by an earlier call is still there after a call that closed
\* the next version of the same key
C10_Witness ==
    /\ kind = "TrackHistory"
    /\ Len(ingested) = 2
    /\ raised = "none"
    /\ Len(ingested[1].rows) >= 1
    /\ Len(cdc.rows) >= 1
    /\ \E a, b \in Range(historical_table) :
         /\ a.key = b.key
         /\ b.address_sk \in 1..Len(init_load)
         /\ b.effective_end = ingested[1].rows[1].last_updated - OneDay
         /\ a.effective_start = ingested[1].rows[1].last_updated
         /\ a.effective_end = cdc.rows[1].last_updated - OneDay

\* ---------------------------------------------------------------------
\* C11: an ingest_cdc(B) call on TrackHistory that returns appends exactly
\* one historical row per row of B, each with a surrogate key no row had
\* before, effective_start = last_updated and a null effective_end; a row
\* of B for a key never seen before yields exactly one current row and one
\* open historical row, and closes no row.
\* ---------------------------------------------------------------------
Appended(old, new) == SubSeq(new, Len(old) + 1, Len(new))

SameRecord(h, r) ==
    h.key = r.key /\ h.value = r.value /\ h.last_updated = r.last_updated

C11_OneNewVersionPerCdcRow ==
    [][(kind = "TrackHistory" /\ raised' = "none") =>
        LET added == Appended(historical_table, historical_table')
        IN  /\ Len(historical_table') = Len(historical_table) + Len(cdc'.rows)
            /\ \A i, j \in DOMAIN added :
                  added[i].address_sk = added[j].address_sk => i = j
            /\ \A h \in Range(added) :
                  /\ h.address_sk \notin
                        {historical_table[i].address_sk : i \in DOMAIN historical_table}
                  /\ h.effective_start = h.last_updated
                  /\ h.effective_end = NaN
            /\ \A r \in Range(cdc'.rows) :
                  Cardinality({i \in DOMAIN added : SameRecord(added[i], r)})
                     = Cardinality({i \in DOMAIN cdc'.rows : cdc'.rows[i] = r})
            /\ \A k \in Index(cdc'.rows) \ (KeysSeen \cup Index(historical_table)) :
                  Cardinality(Locs(cdc'.rows, k)) = 1 =>
                     /\ Len(RowsOf(builder_current, k)) = 0
                     /\ Len(RowsOf(builder_current', k)) = 1
                     /\ Len(RowsOf(historical_table', k)) = 1
                     /\ \A h \in Range(RowsOf(historical_table', k)) :
                           h.effective_end = NaN
                     /\ \A i \in DOMAIN historical_table :
                           historical_table'[i].effective_end # historical_table[i].effective_end
                              => historical_table[i].key \in Index(cdc'.rows) \ {k}]_vars

\* a call that returned, with a record of a known key and one of a key never
\* seen before
C11_Witness ==
    /\ kind = "TrackHistory"
    /\ Len(ingested) >= 1
    /\ raised = "none"
    /\ IsUnique(cdc.rows)
    /\ \E r \in Range(cdc.rows) : r.key \in Index(init_load)
    /\ \E r \in Range(cdc.rows) :
         /\ r.key \notin Index(init_load)
         /\ \A i \in 1..(Len(ingested) - 1) : r.key \notin Index(ingested[i].rows)
         /\ Len(RowsOf(historical_table, r.key)) = 1

\* ---------------------------------------------------------------------
\* C12: after TrackHistory is constructed around a builder given load L,
\* historical_table holds one row per row of L (the builder's load, not the
\* module-level one), each with a surrogate key of its own,
\* effective_start = last_updated and a null effective_end, and the current
\* table is a copy of L.
\* ---------------------------------------------------------------------
C12_HistorySeededFromBuilderLoad ==
    (kind = "TrackHistory" /\ ingested = <<>>) =>
        /\ Len(historical_table) = Len(init_load)
        /\ \A i \in DOMAIN historical_table :
              /\ historical_table[i].key = init_load[i].key
              /\ historical_table[i].value = init_load[i].value
              /\ historical_table[i].last_updated = init_load[i].last_updated
              /\ historical_table[i].effective_start = init_load[i].last_updated
              /\ historical_table[i].effective_end = NaN
        /\ \A i, j \in DOMAIN historical_table :
              historical_table[i].address_sk = historical_table[j].address_sk => i = j
        /\ builder_current = init_load

\* ---------------------------------------------------------------------
\* C13: ingest_cdc is idempotent on the current table: ingesting a batch B
\* (at most one row per key) a second time in a row leaves the table as the
\* first time did, and that table is the union of the table before and B
\* by natural key, with B's row for the keys in both.
\* ---------------------------------------------------------------------
C13_IdempotentUpsert ==
    [][IsUnique(cdc'.rows) =>
        /\ (Len(ingested) >= 1 /\ cdc' = cdc) => builder_current' = builder_current
        /\ Index(builder_current') = Index(builder_current) \cup Index(cdc'.rows)
        /\ \A k \in Index(builder_current') :
              IF k \in Index(cdc'.rows)
              THEN Range(RowsOf(builder_current', k)) = {LastRow(cdc'.rows, k)}
              ELSE RowsOf(builder_current', k) = RowsOf(builder_current, k)
        /\ Len(builder_current') =
              Len(builder_current) + Cardinality(Index(cdc'.rows) \ Index(builder_current))]_vars

\* the same batch, with a known and a new key, has been ingested twice
C13_Witness ==
    /\ Len(ingested) = 2
    /\ ingested[1] = ingested[2]
    /\ IsUnique(cdc.rows)
    /\ \E r \in Range(cdc.rows) : r.key \in Index(init_load) /\ r \notin Range(init_load)
    /\ \E r \in Range(cdc.rows) : r.key \notin Index(init_load)
    /\ Len(builder_current) = Len(init_load) + 1

\* ---------------------------------------------------------------------
\* C14: split_cdc_records returns two row sets that are disjoint and that
\* together hold every row of the batch: a row is in existing_records when
\* its key is in the current table's index, in new_records otherwise.
\* ---------------------------------------------------------------------
IsPartitionByIndex(table, rows) ==
    LET split == split_cdc_records(table, rows)
        ex    == split.existing_records
        nw    == split.new_records
    IN  /\ Range(ex) \cap Range(nw) = {}
        /\ Range(ex) \cup Range(nw) = Range(rows)
        /\ Len(ex) + Len(nw) = Len(rows)
        /\ \A r \in Range(rows) :
              /\ r \in Range(ex) <=> r.key \in Index(table)
              /\ r \in Range(nw) <=> r.key \notin Index(table)

C14_SplitIsPartition ==
    [][/\ IsPartitionByIndex(builder_current, cdc'.rows)
       /\ kind = "TrackHistory" => IsPartitionByIndex(current_table, cdc'.rows)]_vars

\* a batch was split into a non-empty existing part and a non-empty new part
C14_Witness ==
    /\ Len(ingested) = 1
    /\ Len(split_cdc_records(init_load, cdc.rows).existing_records) >= 1
    /\ Len(split_cdc_records(init_load, cdc.rows).new_records) >= 1

\* ---------------------------------------------------------------------
\* C15: in every ingest_cdc call on TrackHistory, the existing/new partition
\* used for the historical step is the partition of the batch against the
\* current table as it stood when the call began (the one the wrapped
\* builder used), for the first batch and for every later one.
\* ---------------------------------------------------------------------
C15_HistoricalStepUsesPreCallPartition ==
    [][kind = "TrackHistory" =>
        split_cdc_records(current_table, cdc'.rows)
            = split_cdc_records(builder_current, cdc'.rows)]_vars

\* ---------------------------------------------------------------------
\* C16: tracking history does not change the current view: after every
\* ingest_cdc, the current table TrackHistory(BasicComposeBuilder(...))
\* persists is the table of a plain BasicComposeBuilder given the same
\* initial load and the same batches.
\* ---------------------------------------------------------------------
RECURSIVE PlainBuilderAfter(_)
\* the current table of BasicComposeBuilder(init_load, ...) after the first
\* n batches of the log
PlainBuilderAfter(n) ==
    IF n = 0 THEN init_load
    ELSE basic_ingest_cdc(PlainBuilderAfter(n - 1), ingested[n].rows).table

C16_CurrentViewAsPlainBuilder ==
    kind = "TrackHistory" =>
        persisted_current_table = PlainBuilderAfter(Len(ingested))

\* two calls on a TrackHistory, the first of which raised in the historical
\* step after the builder had taken the batch
C16_Witness ==
    /\ kind = "TrackHistory"
    /\ Len(ingested) = 2
    /\ outcomes[1] = "KeyError"
    /\ Len(ingested[1].rows) >= 1
    /\ outcomes[2] = "none"
    /\ Len(cdc.rows) >= 1
    /\ persisted_current_table # init_load

\* ---------------------------------------------------------------------
\* C17: after initialization and any sequence of ingest_cdc calls that all
\* returned, the natural keys with a row in historical_table are the keys
\* of the wrapped builder's current table, and each has an open version.
\* ---------------------------------------------------------------------
AllReturned == \A i \in DOMAIN outcomes : outcomes[i] = "none"

C17_HistoryCoversCurrentKeys ==
    (kind = "TrackHistory" /\ AllReturned) =>
        /\ Index(historical_table) = Index(builder_current)
        /\ \A k \in Index(builder_current) : OpenVersions(k) # {}

\* ---------------------------------------------------------------------
\* C18: the wrapper's own current_table is bound at construction and never
\* changed by ingest_cdc: its keys stay those of the initial load, so the
\* historical step treats a CDC row as existing (closes the open version of
\* its key) exactly when the key was in the initial load.
\* ---------------------------------------------------------------------
ClosedByStep(hist, hist2, k) ==
    \E i \in DOMAIN hist :
        /\ hist[i].key = k
        /\ hist[i].effective_end = NaN
        /\ hist2[i].effective_end # NaN

C18_WrapperTableNeverRebound ==
    [][kind = "TrackHistory" =>
        /\ current_table' = current_table
        /\ Index(current_table') = Index(init_load)
        /\ raised' = "none" =>
              \A k \in Index(cdc'.rows) :
                  ClosedByStep(historical_table, historical_table', k)
                      <=> (k \in Index(init_load) /\ OpenVersions(k) # {})]_vars

\* a key brought by the first batch is in the second batch too, and was
\* versioned as a new record both times
C18_Witness ==
    /\ kind = "TrackHistory"
    /\ Len(ingested) = 2
    /\ AllReturned
    /\ Index(current_table) = Index(init_load)
    /\ \E k \in Index(cdc.rows) :
         /\ k \notin Index(init_load)
         /\ k \in Index(ingested[1].rows)
         /\ Cardinality(OpenVersions(k)) = 2
    /\ \E k \in Index(cdc.rows) : k \in Index(init_load)

====
